---- MODULE Spec2Model ----
(***************************************************************************)
(* UnstructuredParser (airbyte_cdk/sources/file_based/file_types/          *)
(* unstructured_parser.py): file type detection, schema inference, record  *)
(* parsing and Markdown rendering, for one call on one file.               *)
(*                                                                         *)
(* Text is a sequence of atoms: an atom is one character where the         *)
(* characters matter (rendered Markdown, decoded content) and a longer     *)
(* literal where they do not (URIs, fixed message parts).  Bytes are       *)
(* numbers; the decode routine turns them into characters.                 *)
(***************************************************************************)
EXTENDS Integers, Sequences, FiniteSets, TLC

VARIABLES
    skip_unprocessable_files, \* format.skip_unprocessable_files
    remote_file,              \* [uri, mime_type]; mime_type "" is None
    file_handle,              \* [content, pos, name]: the stream open_file returns
    content_type,             \* what detect_filetype(file=...) reports for the stream
    unstructured_available,   \* _import_unstructured set all four entry points
    op,                       \* the entry operation called
    pc,                       \* position inside the call
    filetype,                 \* the value _get_filetype returned
    strategy,                 \* which of the three strategies returned it
    calls,                    \* calls made to the delegated library
    extraction,               \* the call of the extraction routine and its outcome
    file_content,             \* the bytes handed to the decode or extraction routine
    records,                  \* the records parse_records has yielded
    raised,                   \* the exception that left the operation
    schema,                   \* the value infer_schema returned
    warnings                  \* number of logger.warn calls

vars == <<skip_unprocessable_files, remote_file, file_handle, content_type,
          unstructured_available, op, pc, filetype, strategy, calls, extraction,
          file_content, records, raised, schema, warnings>>

(* ---------------------------------------------------------------- bounds *)

MaxElems == 2
MaxDepth == 2

(* ------------------------------------------------------- optional values *)

Null == [null |-> TRUE, val |-> <<>>]
Some(v) == [null |-> FALSE, val |-> v]

(* ------------------------------------------------------------ text tools *)

\* "#" * n: the empty string when n <= 0
Repeat(atom, n) == [i \in 1..n |-> atom]

RECURSIVE JoinStr(_, _)
\* sep.join(parts)
JoinStr(sep, parts) ==
    IF parts = <<>> THEN <<>>
    ELSE IF Len(parts) = 1 THEN Head(parts)
    ELSE Head(parts) \o sep \o JoinStr(sep, Tail(parts))

\* all sequences over S of length at most n
SeqsUpTo(S, n) == UNION {[1..k -> S] : k \in 0..n}

(* ------------------------------------------------------------- file types *)

\* None where a FileType is expected
NoneType == "None"

\* str(FileType.X), and str(None)
FileTypeStr(t) == IF t = NoneType THEN <<"None">> ELSE <<"FileType.", t>>

_supported_file_types == <<"MD", "PDF", "DOCX", "PPTX">>

SupportedSet == {_supported_file_types[i] : i \in 1..Len(_supported_file_types)}

_get_file_type_error_message(file_type) ==
    LET supported_file_types ==
            JoinStr(<<", ">>, [i \in 1..Len(_supported_file_types) |->
                                   FileTypeStr(_supported_file_types[i])])
    IN <<"File type ">> \o FileTypeStr(file_type)
         \o <<" is not supported. Supported file types are ">>
         \o supported_file_types

(* -------------------------------------------------------------- exceptions *)

NoException == [kind |-> "none", filename |-> <<>>, message |-> <<>>]

_create_parse_error(rf, message) ==
    [kind |-> "RecordParseError", filename |-> rf.uri, message |-> message]

LibraryUnavailable ==
    [kind |-> "Exception", filename |-> <<>>,
     message |-> <<"unstructured library is not available">>]

DecodeFailure ==
    [kind |-> "UnicodeDecodeError", filename |-> <<>>,
     message |-> <<"invalid start byte">>]

ERROR_PARSING_RECORD ==
    <<"Error parsing record. This could be due to a mismatch between the config's file type and the actual file type, or because the file or record is not parseable. Contact Support if you need assistance.">>

\* str(e) of a RecordParseError
ExceptionStr(e) ==
    ERROR_PARSING_RECORD \o <<"\nfilename=">> \o e.filename
        \o <<" message=">> \o e.message

(* ---------------------------------------------------- document elements *)

\* el.metadata.category_depth: None, or a number
NoDepth == [present |-> FALSE, val |-> 0]
Depth(d) == [present |-> TRUE, val |-> d]

Title(text, depth) ==
    [kind |-> "Title", has_text |-> TRUE, text |-> text, category_depth |-> depth]
ListItem(text) ==
    [kind |-> "ListItem", has_text |-> TRUE, text |-> text, category_depth |-> NoDepth]
Formula(text) ==
    [kind |-> "Formula", has_text |-> TRUE, text |-> text, category_depth |-> NoDepth]
Text(text) ==
    [kind |-> "Text", has_text |-> TRUE, text |-> text, category_depth |-> NoDepth]
\* an element class without a text attribute
CheckBox ==
    [kind |-> "CheckBox", has_text |-> FALSE, text |-> <<>>, category_depth |-> NoDepth]

heading == <<"h", "e", "a", "d", "i", "n", "g">>

\* one element of each class
Elements ==
    {Title(heading, NoDepth), Text(<<"x">>), ListItem(<<"y">>), Formula(<<"z">>),
     CheckBox}

\* headings of every nesting depth
Headings == {Title(heading, Depth(n)) : n \in 0..MaxDepth}

\* one heading, or two as in the test case "multi-level headings"
HeadingLists == {<<h>> : h \in Headings} \cup (Headings \X Headings)

\* the element list of the test case "docx file"
DocxElements ==
    <<Title(heading, NoDepth), Text(<<"x">>), ListItem(<<"y">>), Formula(<<"z">>)>>

(* ------------------------------------------------------ Markdown renderer *)

\* the atom of the grave accent character, which a string here cannot hold
Backtick == "GRAVE"

\* _convert_to_markdown with the nesting depth ignored: every heading at level 1
_convert_to_markdown_flat(el) ==
    IF el.kind = "Title" THEN <<"#", " ">> \o el.text
    ELSE IF el.kind = "ListItem" THEN <<"-", " ">> \o el.text
    ELSE IF el.kind = "Formula" THEN
        <<Backtick, Backtick, Backtick, "\n">> \o el.text
            \o <<"\n", Backtick, Backtick, Backtick>>
    ELSE IF el.has_text THEN el.text
    ELSE <<>>

_convert_to_markdown(el) ==
    IF el.kind = "Title" THEN
        LET depth == el.category_depth
            level == IF depth.present /\ depth.val # 0 THEN depth.val ELSE 1
            heading_str == Repeat("#", level)
        IN heading_str \o <<" ">> \o el.text
    ELSE IF el.kind = "ListItem" THEN <<"-", " ">> \o el.text
    ELSE IF el.kind = "Formula" THEN
        <<Backtick, Backtick, Backtick, "\n">> \o el.text
            \o <<"\n", Backtick, Backtick, Backtick>>
    ELSE IF el.has_text THEN el.text
    ELSE <<>>

\* _render_markdown joining with a single line break
_render_markdown_one_newline(els) ==
    JoinStr(<<"\n">>, [i \in 1..Len(els) |-> _convert_to_markdown(els[i])])

_render_markdown(els) ==
    JoinStr(<<"\n", "\n">>, [i \in 1..Len(els) |-> _convert_to_markdown(els[i])])

(* ---------------------------------------------------- delegated library *)

\* unstructured_optional_decode: bytes.decode("utf-8"); a byte that is no
\* valid UTF-8 makes it raise
ValidByte(b) == b < 128

Chr(b) == IF b = 97 THEN "a" ELSE IF b = 98 THEN "b" ELSE "?"

DecodeRaises(bytes) == \E i \in 1..Len(bytes) : ~ValidByte(bytes[i])

Decode(bytes) == [i \in 1..Len(bytes) |-> Chr(bytes[i])]

\* STR_TO_FILETYPE: the MIME types the library recognises
STR_TO_FILETYPE ==
    [m \in {"text/markdown", "application/pdf", "text/csv"} |->
        IF m = "text/markdown" THEN "MD"
        ELSE IF m = "application/pdf" THEN "PDF"
        ELSE "CSV"]

\* detect_filetype(filename=uri): by the extension; UNK for one it does not
\* know, None without one
DetectByName(uri) ==
    IF Len(uri) < 2 THEN NoneType
    ELSE LET ext == uri[Len(uri)]
         IN IF ext = ".md" THEN "MD"
            ELSE IF ext = ".docx" THEN "DOCX"
            ELSE IF ext = ".csv" THEN "CSV"
            ELSE "UNK"

\* the outcomes of partition_pdf, partition_docx, partition_pptx: a list of
\* elements, or an exception with a message
ExtractionOutcomes ==
    {[called |-> TRUE, ok |-> TRUE, elements |-> els, message |-> <<>>] :
        els \in SeqsUpTo(Elements, MaxElems) \cup HeadingLists \cup {DocxElements}}
    \cup
    {[called |-> TRUE, ok |-> FALSE, elements |-> <<>>, message |-> m] :
        m \in {<<"weird parsing error">>, <<"corrupt">>}}

NoExtraction == [called |-> FALSE, ok |-> FALSE, elements |-> <<>>, message |-> <<>>]

(* ------------------------------------------------------------ the stream *)

\* file_handle.read(1): one byte only
Read_one_byte(file) ==
    SubSeq(file.content, file.pos + 1,
           IF file.pos + 1 <= Len(file.content) THEN file.pos + 1 ELSE Len(file.content))

\* file_handle.read(): the bytes from the read position to the end
Read(file) == SubSeq(file.content, file.pos + 1, Len(file.content))

AfterRead(file) == [file EXCEPT !.pos = Len(file.content)]

Seek0(file) == [file EXCEPT !.pos = 0]

(* -------------------------------------------------------- type detection *)

\* _get_filetype without the seek(0) after the content is sniffed
_get_filetype_no_seek(file, rf, by_content, sniff_end) ==
    IF rf.mime_type # "" /\ rf.mime_type \in DOMAIN STR_TO_FILETYPE THEN
        [filetype |-> STR_TO_FILETYPE[rf.mime_type], file |-> file,
         strategy |-> "mime", by_name |-> 0, by_file |-> 0]
    ELSE
        LET unnamed == IF file.name # "absent"
                       THEN [file EXCEPT !.name = "None"] ELSE file
            file_type == DetectByName(rf.uri)
        IN IF file_type # NoneType /\ ~(file_type = "UNK") THEN
               [filetype |-> file_type, file |-> unnamed,
                strategy |-> "name", by_name |-> 1, by_file |-> 0]
           ELSE
               [filetype |-> by_content, file |-> [unnamed EXCEPT !.pos = sniff_end],
                strategy |-> "content", by_name |-> 1, by_file |-> 1]

\* _get_filetype asking the file name before the MIME type
_get_filetype_name_first(file, rf, by_content, sniff_end) ==
    LET unnamed == IF file.name # "absent"
                   THEN [file EXCEPT !.name = "None"] ELSE file
        file_type == DetectByName(rf.uri)
    IN IF file_type # NoneType /\ ~(file_type = "UNK") THEN
           [filetype |-> file_type, file |-> unnamed,
            strategy |-> "name", by_name |-> 1, by_file |-> 0]
       ELSE IF rf.mime_type # "" /\ rf.mime_type \in DOMAIN STR_TO_FILETYPE THEN
           [filetype |-> STR_TO_FILETYPE[rf.mime_type], file |-> unnamed,
            strategy |-> "mime", by_name |-> 1, by_file |-> 0]
       ELSE
           [filetype |-> by_content,
            file |-> Seek0([unnamed EXCEPT !.pos = sniff_end]),
            strategy |-> "content", by_name |-> 1, by_file |-> 1]

\* _get_filetype(file, remote_file).  by_content is what
\* detect_filetype(file=file) reports and sniff_end the read position it
\* leaves.  Returns the type, the stream as left, and what was consulted.
_get_filetype(file, rf, by_content, sniff_end) ==
    IF rf.mime_type # "" /\ rf.mime_type \in DOMAIN STR_TO_FILETYPE THEN
        [filetype |-> STR_TO_FILETYPE[rf.mime_type], file |-> file,
         strategy |-> "mime", by_name |-> 0, by_file |-> 0]
    ELSE
        LET unnamed == IF file.name # "absent"
                       THEN [file EXCEPT !.name = "None"] ELSE file
            file_type == DetectByName(rf.uri)
        IN IF file_type # NoneType /\ ~(file_type = "UNK") THEN
               [filetype |-> file_type, file |-> unnamed,
                strategy |-> "name", by_name |-> 1, by_file |-> 0]
           ELSE
               LET type_based_on_content == by_content
                   sniffed == [unnamed EXCEPT !.pos = sniff_end]
               IN [filetype |-> type_based_on_content, file |-> Seek0(sniffed),
                   strategy |-> "content", by_name |-> 1, by_file |-> 1]

(* ------------------------------------------------------- schema inference *)

StaticSchema ==
    [content |->
        [type |-> "string",
         description |-> "Content of the file as markdown. Might be null if the file could not be parsed"],
     document_key |->
        [type |-> "string",
         description |-> "Unique identifier of the document, e.g. the file path"],
     _ab_source_file_parse_error |->
        [type |-> "string",
         description |-> "Error message if the file could not be parsed even though the file is supported"]]

NoSchema == [null |-> TRUE, val |-> <<>>]

\* infer_schema raising for an unsupported type whatever the flag says
infer_schema_strict(ftype, rf, skip) ==
    IF ftype \notin SupportedSet THEN
        [raised |-> _create_parse_error(rf, _get_file_type_error_message(ftype)),
         schema |-> NoSchema]
    ELSE
        [raised |-> NoException, schema |-> Some(StaticSchema)]

\* infer_schema after the type is detected: what it raises, what it returns
infer_schema(ftype, rf, skip) ==
    IF ftype \notin SupportedSet /\ ~skip THEN
        [raised |-> _create_parse_error(rf, _get_file_type_error_message(ftype)),
         schema |-> NoSchema]
    ELSE
        [raised |-> NoException, schema |-> Some(StaticSchema)]

(* ---------------------------------------------------------- record parser *)

\* _read_file after the type is detected.  outcome is what the extraction
\* routine does when it is called.  Returns the exception raised or the
\* Markdown returned, the stream as left, the routines called and what they
\* were given.
_read_file(file, rf, ftype, outcome) ==
    IF ftype = "MD" THEN
        LET bytes == Read(file)
        IN [raised |-> IF DecodeRaises(bytes) THEN DecodeFailure ELSE NoException,
            markdown |-> IF DecodeRaises(bytes) THEN <<>> ELSE Decode(bytes),
            file |-> AfterRead(file), decode |-> 1, partition |-> <<>>,
            given |-> Some(bytes), extraction |-> NoExtraction]
    ELSE IF ftype \notin SupportedSet THEN
        [raised |-> _create_parse_error(rf, _get_file_type_error_message(ftype)),
         markdown |-> <<>>, file |-> file, decode |-> 0, partition |-> <<>>,
         given |-> Null, extraction |-> NoExtraction]
    ELSE
        LET loaded == Seek0(AfterRead(Seek0(file)))
            \* PDF: a BytesIO of file_handle.read(), then file_handle.seek(0);
            \* DOCX, PPTX: the handle itself, which the routine reads
            bytes == Read(loaded)
            left == IF ftype = "PDF" THEN Seek0(AfterRead(loaded))
                    ELSE AfterRead(loaded)
            routine == IF ftype = "PDF" THEN "partition_pdf"
                       ELSE IF ftype = "DOCX" THEN "partition_docx"
                       ELSE "partition_pptx"
        IN [raised |-> IF outcome.ok THEN NoException
                       ELSE _create_parse_error(rf, outcome.message),
            markdown |-> IF outcome.ok THEN _render_markdown(outcome.elements)
                         ELSE <<>>,
            file |-> left, decode |-> 0, partition |-> <<routine>>,
            given |-> Some(bytes), extraction |-> outcome]

\* parse_records raising the parse error whatever the flag says
parse_records_reraise(r, rf, skip) ==
    IF r.raised = NoException THEN
        [records |-> <<[content |-> Some(r.markdown), document_key |-> rf.uri,
                        _ab_source_file_parse_error |-> Null]>>,
         raised |-> NoException, warnings |-> 0]
    ELSE [records |-> <<>>, raised |-> r.raised, warnings |-> 0]

\* parse_records turning the parse error into a record whatever the flag says
parse_records_swallow(r, rf, skip) ==
    IF r.raised = NoException THEN
        [records |-> <<[content |-> Some(r.markdown), document_key |-> rf.uri,
                        _ab_source_file_parse_error |-> Null]>>,
         raised |-> NoException, warnings |-> 0]
    ELSE IF r.raised.kind = "RecordParseError" THEN
        [records |-> <<[content |-> Null, document_key |-> rf.uri,
                        _ab_source_file_parse_error |-> Some(ExceptionStr(r.raised))]>>,
         raised |-> NoException, warnings |-> 1]
    ELSE [records |-> <<>>, raised |-> r.raised, warnings |-> 0]

\* parse_records leaving an empty content beside the error of a degraded record
parse_records_empty_content(r, rf, skip) ==
    IF r.raised = NoException THEN
        [records |-> <<[content |-> Some(r.markdown), document_key |-> rf.uri,
                        _ab_source_file_parse_error |-> Null]>>,
         raised |-> NoException, warnings |-> 0]
    ELSE IF r.raised.kind = "RecordParseError" THEN
        IF skip THEN
            [records |-> <<[content |-> Some(<<>>), document_key |-> rf.uri,
                            _ab_source_file_parse_error |-> Some(ExceptionStr(r.raised))]>>,
             raised |-> NoException, warnings |-> 1]
        ELSE [records |-> <<>>, raised |-> r.raised, warnings |-> 0]
    ELSE [records |-> <<>>, raised |-> r.raised, warnings |-> 0]

\* parse_records yielding the degraded record before it raises
parse_records_yield_and_raise(r, rf, skip) ==
    IF r.raised = NoException THEN
        [records |-> <<[content |-> Some(r.markdown), document_key |-> rf.uri,
                        _ab_source_file_parse_error |-> Null]>>,
         raised |-> NoException, warnings |-> 0]
    ELSE IF r.raised.kind = "RecordParseError" THEN
        [records |-> <<[content |-> Null, document_key |-> rf.uri,
                        _ab_source_file_parse_error |-> Some(ExceptionStr(r.raised))]>>,
         raised |-> IF skip THEN NoException ELSE r.raised, warnings |-> 1]
    ELSE [records |-> <<>>, raised |-> r.raised, warnings |-> 0]

\* parse_records with "except Exception" in place of "except RecordParseError"
parse_records_catch_all(r, rf, skip) ==
    IF r.raised = NoException THEN
        [records |-> <<[content |-> Some(r.markdown), document_key |-> rf.uri,
                        _ab_source_file_parse_error |-> Null]>>,
         raised |-> NoException, warnings |-> 0]
    ELSE IF skip THEN
        [records |-> <<[content |-> Null, document_key |-> rf.uri,
                        _ab_source_file_parse_error |-> Some(r.raised.message)]>>,
         raised |-> NoException, warnings |-> 1]
    ELSE [records |-> <<>>, raised |-> r.raised, warnings |-> 0]

\* the try/except of parse_records around _read_file: r is what _read_file
\* did.  Returns the records yielded, the exception that leaves the
\* generator and the warnings logged before the yield.
parse_records(r, rf, skip) ==
    IF r.raised = NoException THEN
        [records |-> <<[content |-> Some(r.markdown), document_key |-> rf.uri,
                        _ab_source_file_parse_error |-> Null]>>,
         raised |-> NoException, warnings |-> 0]
    ELSE IF r.raised.kind = "RecordParseError" THEN
        IF skip THEN
            LET exception_str == ExceptionStr(r.raised)
            IN [records |-> <<[content |-> Null, document_key |-> rf.uri,
                               _ab_source_file_parse_error |-> Some(exception_str)]>>,
                raised |-> NoException, warnings |-> 1]
        ELSE [records |-> <<>>, raised |-> r.raised, warnings |-> 0]
    ELSE [records |-> <<>>, raised |-> r.raised, warnings |-> 0]

(* ------------------------------------------------------------- the inputs *)

URIs ==
    {<<"path/to/file", ".md">>, <<"path/to/file", ".docx">>,
     <<"path/to/file", ".csv">>, <<"path/to/file", ".xyz">>, <<"path/to/file">>}

MimeTypes ==
    {"", "text/markdown", "application/pdf", "text/csv", "application/x-unknown"}

ContentTypes == {"MD", "PDF", "PPTX", "UNK", NoneType}

Contents == {<<>>, <<97>>, <<97, 98>>, <<255>>, <<98, 255>>}

NoCalls == [by_name |-> 0, by_file |-> 0, decode |-> 0, partition |-> <<>>]

Init ==
    /\ skip_unprocessable_files \in BOOLEAN
    /\ remote_file \in [uri : URIs, mime_type : MimeTypes]
    /\ file_handle \in [content : Contents, pos : {0}, name : {"absent", "set"}]
    /\ content_type \in ContentTypes
    /\ unstructured_available \in BOOLEAN
    /\ op = "none"
    /\ pc = "idle"
    /\ filetype = "unset"
    /\ strategy = "none"
    /\ calls = NoCalls
    /\ extraction = NoExtraction
    /\ file_content = Null
    /\ records = <<>>
    /\ raised = NoException
    /\ schema = NoSchema
    /\ warnings = 0

(* ------------------------------------------------------------ the actions *)

\* infer_schema is called: _extract_format, open_file
CallInferSchema ==
    /\ pc = "idle"
    /\ op' = "infer_schema"
    /\ pc' = "get_filetype"
    /\ UNCHANGED <<skip_unprocessable_files, remote_file, file_handle, content_type,
                   unstructured_available, filetype, strategy, calls, extraction,
                   file_content, records, raised, schema, warnings>>

\* parse_records is started: _extract_format, open_file, and _read_file up
\* to its check that the library is available; the exception of that check
\* is raised inside the try of parse_records
CallParseRecords ==
    /\ pc = "idle"
    /\ op' = "parse_records"
    /\ IF unstructured_available
       THEN /\ pc' = "get_filetype"
            /\ UNCHANGED <<records, raised, warnings>>
       ELSE LET p == parse_records([raised |-> LibraryUnavailable, markdown |-> <<>>],
                                   remote_file, skip_unprocessable_files)
            IN /\ records' = records \o p.records
               /\ raised' = p.raised
               /\ warnings' = warnings + p.warnings
               /\ pc' = IF p.records # <<>> THEN "yielded" ELSE "done"
    /\ UNCHANGED <<skip_unprocessable_files, remote_file, file_handle, content_type,
                   unstructured_available, filetype, strategy, calls, extraction,
                   file_content, schema>>

\* _get_filetype runs and returns
GetFiletype ==
    /\ pc = "get_filetype"
    /\ \E sniff_end \in 0..Len(file_handle.content) :
        LET d == _get_filetype(file_handle, remote_file, content_type, sniff_end)
        IN /\ filetype' = d.filetype
           /\ file_handle' = d.file
           /\ strategy' = d.strategy
           /\ calls' = [calls EXCEPT !.by_name = @ + d.by_name,
                                     !.by_file = @ + d.by_file]
    /\ pc' = "detected"
    /\ UNCHANGED <<skip_unprocessable_files, remote_file, content_type,
                   unstructured_available, op, extraction, file_content, records,
                   raised, schema, warnings>>

\* infer_schema after detection: raise, or return the schema
ReturnInferSchema ==
    /\ pc = "detected"
    /\ op = "infer_schema"
    /\ LET r == infer_schema(filetype, remote_file, skip_unprocessable_files)
       IN raised' = r.raised /\ schema' = r.schema
    /\ pc' = "done"
    /\ UNCHANGED <<skip_unprocessable_files, remote_file, file_handle, content_type,
                   unstructured_available, op, filetype, strategy, calls, extraction,
                   file_content, records, warnings>>

\* parse_records after detection: the rest of _read_file, then the yield of
\* the record or the raise
ReadFile ==
    /\ pc = "detected"
    /\ op = "parse_records"
    /\ \E outcome \in ExtractionOutcomes :
        LET r == _read_file(file_handle, remote_file, filetype, outcome)
            p == parse_records(r, remote_file, skip_unprocessable_files)
        IN /\ file_handle' = r.file
           /\ calls' = [calls EXCEPT !.decode = @ + r.decode,
                                     !.partition = @ \o r.partition]
           /\ extraction' = r.extraction
           /\ file_content' = r.given
           /\ records' = records \o p.records
           /\ raised' = p.raised
           /\ warnings' = warnings + p.warnings
           /\ pc' = IF p.records # <<>> THEN "yielded" ELSE "done"
    /\ UNCHANGED <<skip_unprocessable_files, remote_file, content_type,
                   unstructured_available, op, filetype, strategy, schema>>

\* the consumer asks for the next record: the generator runs from its yield
\* to its end
Resume ==
    /\ pc = "yielded"
    /\ warnings' = IF records[Len(records)].content.null
                   THEN warnings + 1 ELSE warnings
    /\ pc' = "done"
    /\ UNCHANGED <<skip_unprocessable_files, remote_file, file_handle, content_type,
                   unstructured_available, op, filetype, strategy, calls, extraction,
                   file_content, records, raised, schema>>

Next ==
    \/ CallInferSchema
    \/ CallParseRecords
    \/ GetFiletype
    \/ ReturnInferSchema
    \/ ReadFile
    \/ Resume

Spec == Init /\ [][Next]_vars

(* ------------------------------------------------------------- properties *)

\* sub occurs in s as a contiguous run of atoms
Contains(s, sub) ==
    \E i \in 0..(Len(s) - Len(sub)) :
        \A j \in 1..Len(sub) : s[i + j] = sub[j]

\* parse_records has run past _read_file: it is suspended at its yield, or over
Parsed == op = "parse_records" /\ pc \in {"yielded", "done"}

\* _get_filetype has returned inside the parse_records call
DetectedInParse == Parsed /\ filetype # "unset"

Unsupported == filetype \notin {"MD", "PDF", "DOCX", "PPTX"}

ExtractionRaised == extraction.called /\ ~extraction.ok

\* the message for the detected type: f"File type {file_type} is not
\* supported. Supported file types are FileType.MD, FileType.PDF, ..."
UnsupportedMessage ==
    <<"File type ">>
        \o (IF filetype = "None" THEN <<"None">> ELSE <<"FileType.", filetype>>)
        \o <<" is not supported. Supported file types are ",
             "FileType.", "MD", ", ", "FileType.", "PDF", ", ",
             "FileType.", "DOCX", ", ", "FileType.", "PPTX">>

\* C1: with skip_unprocessable_files true, once parse_records has detected an
\* unsupported type or its extraction routine has raised, no exception leaves
\* it: it has yielded one record with content null, document_key the URI and
\* a parse error string that contains the unsupported-type message or the
\* message of the exception raised.
C1_SkipYieldsDegradedRecord ==
    (DetectedInParse /\ skip_unprocessable_files
        /\ (Unsupported \/ ExtractionRaised))
    => /\ raised = NoException
       /\ Len(records) = 1
       /\ records[1].content = Null
       /\ records[1].document_key = remote_file.uri
       /\ ~records[1]._ab_source_file_parse_error.null
       /\ Unsupported =>
            Contains(records[1]._ab_source_file_parse_error.val, UnsupportedMessage)
       /\ ExtractionRaised =>
            Contains(records[1]._ab_source_file_parse_error.val, extraction.message)

C1_Witness_Unsupported ==
    /\ DetectedInParse /\ pc = "done" /\ skip_unprocessable_files
    /\ Unsupported /\ Len(records) = 1

C1_Witness ==
    /\ DetectedInParse /\ pc = "done" /\ skip_unprocessable_files
    /\ ExtractionRaised /\ extraction.message = <<"weird parsing error">>
    /\ Len(records) = 1 /\ records[1].content.null

\* C2: with skip_unprocessable_files false, an unsupported detected type makes
\* infer_schema and parse_records raise the structured parse error with the
\* file's URI and the unsupported-type message, an exception of the extraction
\* routine leaves parse_records as a structured parse error with its message,
\* and parse_records yields no record in these cases.
C2_NoSkipRaises ==
    /\ (op = "infer_schema" /\ pc = "done" /\ ~skip_unprocessable_files
            /\ Unsupported)
       => /\ raised.kind = "RecordParseError"
          /\ raised.filename = remote_file.uri
          /\ Contains(raised.message, UnsupportedMessage)
          /\ schema.null
    /\ (DetectedInParse /\ ~skip_unprocessable_files /\ Unsupported)
       => /\ pc = "done"
          /\ raised.kind = "RecordParseError"
          /\ raised.filename = remote_file.uri
          /\ Contains(raised.message, UnsupportedMessage)
          /\ records = <<>>
    /\ (DetectedInParse /\ ~skip_unprocessable_files /\ ExtractionRaised)
       => /\ pc = "done"
          /\ raised.kind = "RecordParseError"
          /\ raised.filename = remote_file.uri
          /\ raised.message = extraction.message
          /\ records = <<>>

C2_Witness_InferSchema ==
    /\ op = "infer_schema" /\ pc = "done" /\ ~skip_unprocessable_files
    /\ Unsupported /\ raised.kind = "RecordParseError"

C2_Witness_Extraction ==
    /\ DetectedInParse /\ ~skip_unprocessable_files /\ ExtractionRaised
    /\ raised.kind = "RecordParseError" /\ filetype = "PPTX"

C2_Witness ==
    /\ DetectedInParse /\ ~skip_unprocessable_files /\ Unsupported
    /\ raised.kind = "RecordParseError" /\ filetype = "CSV"

\* C3: in every record parse_records has yielded, exactly one of content and
\* the parse error is non-null.
C3_ExactlyOneNonNull ==
    \A i \in 1..Len(records) :
        records[i].content.null # records[i]._ab_source_file_parse_error.null

C3_Witness ==
    /\ Len(records) = 1 /\ records[1].content.null
    /\ ~records[1]._ab_source_file_parse_error.null

C3_Witness_Content ==
    /\ Len(records) = 1 /\ ~records[1].content.null
    /\ records[1]._ab_source_file_parse_error.null

\* C4: parse_records yields at most one record; when it is over without an
\* exception it has yielded exactly one, and when an exception left it, none.
C4_AtMostOneRecord ==
    /\ Len(records) <= 1
    /\ (op = "parse_records" /\ pc = "done" /\ raised = NoException)
            => Len(records) = 1
    /\ (op = "parse_records" /\ raised # NoException) => Len(records) = 0
    /\ pc = "yielded" => raised = NoException

C4_Witness ==
    op = "parse_records" /\ pc = "done" /\ raised = NoException /\ Len(records) = 1

C4_Witness_Raised ==
    op = "parse_records" /\ pc = "done" /\ raised.kind = "RecordParseError"
        /\ Len(records) = 0

\* the text of a byte string, byte by byte
C5_TextOf(bytes) ==
    [i \in 1..Len(bytes) |-> CASE bytes[i] = 97 -> "a" [] bytes[i] = 98 -> "b"]

C5_Witness_Mime ==
    /\ DetectedInParse /\ filetype = "MD" /\ strategy = "mime" /\ pc = "done"
    /\ Len(records) = 1 /\ records[1].content.val = <<"a", "b">>

C5_Witness_Name ==
    /\ DetectedInParse /\ filetype = "MD" /\ strategy = "name" /\ pc = "done"
    /\ Len(records) = 1 /\ records[1].content.val = <<"a", "b">>

LeadingHashes(s) ==
    CHOOSE n \in 0..Len(s) :
        /\ \A i \in 1..n : s[i] = "#"
        /\ n = Len(s) \/ s[n + 1] # "#"

\* the rendering of one element as the renderer's rules word it; a Title is
\* a heading at the level of its nesting depth, or 1 without one
C6_Rendering(el) ==
    CASE el.kind = "ListItem" -> <<"-", " ">> \o el.text
      [] el.kind = "Formula" ->
            <<Backtick, Backtick, Backtick, "\n">> \o el.text
                \o <<"\n", Backtick, Backtick, Backtick>>
      [] el.kind = "Title" ->
            [i \in 1..(IF el.category_depth.present /\ el.category_depth.val >= 1
                       THEN el.category_depth.val ELSE 1) |-> "#"]
                \o <<" ">> \o el.text
      [] OTHER -> IF el.has_text THEN el.text ELSE <<>>

\* the renderings of els[1..n] in order, a blank line between neighbours
C6_Joined(els) ==
    LET upto[n \in 0..Len(els)] ==
            IF n = 0 THEN <<>>
            ELSE IF n = 1 THEN C6_Rendering(els[1])
            ELSE upto[n - 1] \o <<"\n", "\n">> \o C6_Rendering(els[n])
    IN upto[Len(els)]

\* "# heading\n\nx\n\n- y\n\n```\nz\n```"
C6_DocxMarkdown ==
    <<"#", " ", "h", "e", "a", "d", "i", "n", "g", "\n", "\n", "x", "\n", "\n",
      "-", " ", "y", "\n", "\n", Backtick, Backtick, Backtick, "\n", "z", "\n",
      Backtick, Backtick, Backtick>>

\* C6: once the extraction routine of a PDF, DOCX or PPTX file has returned
\* its elements, the one record's content is the renderings of the elements
\* in their order joined by a blank line: "- " + text for a ListItem, the
\* text in a fenced code block for a Formula, the text for any other element
\* with text, the empty string for one without; the list Title(heading),
\* Text(x), ListItem(y), Formula(z) gives "# heading\n\nx\n\n- y\n\n```\nz\n```".
C6_RenderedContent ==
    (Parsed /\ extraction.called /\ extraction.ok)
    => /\ filetype \in {"PDF", "DOCX", "PPTX"}
       /\ Len(records) = 1
       /\ records[1].content = Some(C6_Joined(extraction.elements))
       /\ extraction.elements = DocxElements
            => records[1].content.val = C6_DocxMarkdown

C6_Witness ==
    /\ Parsed /\ pc = "done" /\ extraction.called /\ extraction.ok
    /\ extraction.elements = DocxElements
    /\ Len(records) = 1 /\ records[1].content.val = C6_DocxMarkdown

C6_Witness_NoText ==
    /\ Parsed /\ extraction.called /\ extraction.ok
    /\ extraction.elements = <<CheckBox, Text(<<"x">>)>>
    /\ Len(records) = 1 /\ records[1].content.val = <<"\n", "\n", "x">>

\* a record was yielded for an element list that starts with a Title
C7_TitleFirst ==
    /\ Parsed /\ extraction.called /\ extraction.ok /\ Len(records) = 1
    /\ extraction.elements # <<>>
    /\ extraction.elements[1].kind = "Title"

\* C7 as claimed: a Title renders with as many leading "#" as its nesting
\* depth, for every depth that is present, and with one without a depth.
C7_Original_HashesEqualDepth ==
    C7_TitleFirst
    => LET depth == extraction.elements[1].category_depth
       IN LeadingHashes(records[1].content.val)
            = (IF depth.present THEN depth.val ELSE 1)

\* C7, amended: a Title renders with as many leading "#" as its nesting
\* depth for every depth that is present and at least 1, and with one "#"
\* when no depth is present or the depth is 0.
C7_HashesEqualDepthFromOne ==
    C7_TitleFirst
    => LET depth == extraction.elements[1].category_depth
           content == records[1].content.val
           n == LeadingHashes(content)
       IN /\ (depth.present /\ depth.val >= 1) => n = depth.val
          /\ (~depth.present \/ depth.val = 0) => n = 1
          /\ content[n + 1] = " "

C7_Witness ==
    /\ C7_TitleFirst
    /\ extraction.elements =
         <<Title(heading, Depth(1)), Title(heading, Depth(2))>>
    /\ records[1].content.val =
         <<"#", " ">> \o heading \o <<"\n", "\n", "#", "#", " ">> \o heading

C7_Witness_DepthZero ==
    /\ C7_TitleFirst
    /\ extraction.elements[1].category_depth = Depth(0)
    /\ LeadingHashes(records[1].content.val) = 1

\* C8: whenever infer_schema returns, and it does whenever the detected type
\* is supported or skipping is enabled, it returns the one schema of three
\* string fields, whatever the file and its type; it calls no extraction
\* routine and not the decode routine.
C8_StaticSchema ==
    (op = "infer_schema" /\ pc = "done")
    => /\ (filetype \in {"MD", "PDF", "DOCX", "PPTX"} \/ skip_unprocessable_files)
            => raised = NoException
       /\ raised = NoException
            => /\ ~schema.null
               /\ DOMAIN schema.val
                    = {"content", "document_key", "_ab_source_file_parse_error"}
               /\ \A f \in DOMAIN schema.val : schema.val[f].type = "string"
               /\ schema.val = StaticSchema
       /\ raised # NoException => schema.null
       /\ calls.decode = 0
       /\ calls.partition = <<>>
       /\ ~extraction.called
       /\ file_content = Null

C8_Witness ==
    /\ op = "infer_schema" /\ pc = "done" /\ skip_unprocessable_files
    /\ filetype = "CSV" /\ ~schema.null

C8_Witness_Supported ==
    /\ op = "infer_schema" /\ pc = "done" /\ ~skip_unprocessable_files
    /\ filetype = "PPTX" /\ ~schema.null

\* the MIME type is supplied and recognised
C9_MimeRecognised ==
    remote_file.mime_type \in {"text/markdown", "application/pdf", "text/csv"}

\* the type the URI yields is a known type
C9_NameKnown == DetectByName(remote_file.uri) \notin {"None", "UNK"}

\* C9: a supplied and recognised MIME type decides the type, and neither the
\* name nor the content is then consulted, also when the content disagrees;
\* otherwise the type of the URI is used when it is a known type; the content
\* is sniffed only when the URI yields no type or the unknown type, and its
\* type is then the result.
C9_ResolutionOrder ==
    filetype # "unset"
    => /\ C9_MimeRecognised
            => /\ filetype = STR_TO_FILETYPE[remote_file.mime_type]
               /\ calls.by_name = 0 /\ calls.by_file = 0
               /\ strategy = "mime"
       /\ (~C9_MimeRecognised /\ C9_NameKnown)
            => /\ filetype = DetectByName(remote_file.uri)
               /\ calls.by_name = 1 /\ calls.by_file = 0
               /\ strategy = "name"
       /\ (~C9_MimeRecognised /\ ~C9_NameKnown)
            => /\ filetype = content_type
               /\ calls.by_name = 1 /\ calls.by_file = 1
               /\ strategy = "content"

C9_Witness ==
    /\ pc = "detected" /\ remote_file.mime_type = "application/pdf"
    /\ remote_file.uri = <<"path/to/file", ".md">> /\ content_type = "PPTX"
    /\ filetype = "PDF"

C9_Witness_Name ==
    /\ pc = "detected" /\ remote_file.mime_type = "application/x-unknown"
    /\ remote_file.uri = <<"path/to/file", ".docx">> /\ content_type = "MD"
    /\ filetype = "DOCX"

C9_Witness_Content ==
    /\ pc = "detected" /\ remote_file.mime_type = ""
    /\ remote_file.uri = <<"path/to/file", ".xyz">> /\ content_type = "PPTX"
    /\ filetype = "PPTX"

\* C10: when _get_filetype returns, by any of the three strategies, the read
\* position of the stream is at the start, and the decode or extraction
\* routine that follows is given all the bytes of the file.
C10_DetectionRestoresPosition ==
    /\ pc = "detected" => file_handle.pos = 0
    /\ (Parsed /\ ~file_content.null) => file_content.val = file_handle.content

C10_Witness ==
    /\ Parsed /\ strategy = "content" /\ filetype = "MD"
    /\ file_content = Some(<<97, 98>>)

C10_Witness_Detected ==
    /\ pc = "detected" /\ strategy = "content" /\ file_handle.pos = 0
    /\ Len(file_handle.content) = 2

\* the library check of _read_file failed in this parse_records call
C11_LibraryMissing ==
    op = "parse_records" /\ pc # "idle" /\ ~unstructured_available

\* the decode routine was given bytes that are no valid UTF-8
C11_DecodeFailed ==
    /\ Parsed /\ filetype = "MD" /\ calls.decode = 1
    /\ \E i \in 1..Len(file_content.val) : file_content.val[i] >= 128

\* C11: an exception of parse_records that is no structured parse error, the
\* failure of the Markdown decode routine or "unstructured library is not
\* available", leaves parse_records and no record is yielded, also with
\* skip_unprocessable_files true; a record with a parse error is yielded only
\* for an unsupported type or an exception of an extraction routine.
C11_OtherExceptionsPropagate ==
    /\ C11_LibraryMissing
        => /\ pc = "done"
           /\ raised.kind = "Exception"
           /\ raised.message = <<"unstructured library is not available">>
           /\ records = <<>>
    /\ C11_DecodeFailed
        => /\ pc = "done"
           /\ raised.kind = "UnicodeDecodeError"
           /\ records = <<>>
    /\ \A i \in 1..Len(records) :
        ~records[i]._ab_source_file_parse_error.null
            => /\ DetectedInParse
               /\ Unsupported \/ ExtractionRaised

C11_Witness ==
    /\ C11_DecodeFailed /\ skip_unprocessable_files /\ pc = "done"
    /\ raised.kind = "UnicodeDecodeError" /\ records = <<>>

C11_Witness_Library ==
    /\ C11_LibraryMissing /\ skip_unprocessable_files /\ pc = "done"
    /\ raised = LibraryUnavailable /\ records = <<>>

====
